---- MODULE Spec2Model ----
(***************************************************************************)
(* Model of the two scripts of ivt-pipeline-racmo-arctic:                  *)
(*   create_level_bounds.py  (the Bounds Generator)                        *)
(*   levels_check.py         (the Bounds Validator)                        *)
(* Both work on the fixed path 'level_bounds.nc'.  A run of a script is a  *)
(* straight-line sequence of statements; each action below is one          *)
(* statement (or one block of attribute assignments) of a script.  Runs    *)
(* are sequential: a new run starts only when the previous one has ended.  *)
(*                                                                         *)
(* Numbers.  Pressures are whole Pascals (integers).  The Validator's      *)
(* arithmetic is carried out in tenths of a Pascal, which is exact for     *)
(* the mean of a pair of whole numbers; a printed field (one decimal) is   *)
(* the pair <<integer part, first decimal>>.                               *)
(***************************************************************************)
EXTENDS Integers, Sequences, FiniteSets, TLC

VARIABLES
    cfg,              \* the literals in the Generator's source (lines 54-64)
    writable,         \* whether 'level_bounds.nc' can be created/truncated
    fs,               \* the content of 'level_bounds.nc', or NoFile
    run,              \* which script is (or was last) running
    pc,               \* the statement the running script is at
    handle,           \* the Dataset handle of the run
    err,              \* source line of the uncaught exception (0: none)
    plev_vals,        \* Generator: the float32 array of line 54
    plev_bounds_vals, \* Generator: the float32 array of lines 55-64
    plev,             \* Validator: the array read at line 7
    plev_bounds,      \* Validator: the array read at line 8
    i,                \* Validator: loop index of line 11 (0-based)
    lines,            \* Validator: the lines printed so far by this run
    fs_before,        \* history: fs when the current run started
    first_result,     \* history: fs after the first successful Generator run
    gen_runs          \* history: completed Generator runs, counted up to MaxCounted

vars == <<cfg, writable, fs, run, pc, handle, err, plev_vals, plev_bounds_vals,
          plev, plev_bounds, i, lines, fs_before, first_result, gen_runs>>

(***************************************************************************)
(* Bounds of the model                                                     *)
(***************************************************************************)
\* Longest plev / plev_bounds axis of a file not written by the Generator.
MaxForeignLen == 2
\* Completed Generator runs are counted up to this number.
MaxCounted == 2

(***************************************************************************)
(* Values                                                                  *)
(***************************************************************************)
\* netCDF default fill value of an f8 variable (9.969e36), as a token
\* outside the range of the pressures.
NC_FILL == 2^30
\* numpy.ma.masked: what a fill value reads as.
MASKED == 0 - 1
\* What a masked value prints as ('--').
DASHES == <<MASKED, MASKED>>

NoFile == [exists |-> FALSE]

RECURSIVE Ulp(_)
\* Spacing of float32 numbers around the non-negative integer x.
Ulp(x) == IF x < 2^24 THEN 1 ELSE 2 * Ulp(x \div 2)

\* dtype='float32': round to the nearest float32, ties to even.
F32(x) ==
    LET u == Ulp(x)
        q == x \div u
        r == x % u
    IN  IF 2 * r < u THEN q * u
        ELSE IF 2 * r > u THEN (q + 1) * u
        ELSE IF q % 2 = 0 THEN q * u ELSE (q + 1) * u

\* create_level_bounds.py line 54
Shipped_plev == <<100000, 92500, 85000, 70000, 60000, 50000, 40000, 30000>>

\* create_level_bounds.py lines 41-52 (commented out): the bounds of the
\* nine-level variant, cut to eight rows.
Stale_plev_bounds ==
    << <<101325, 96250>>, <<96250, 88750>>, <<88750, 80000>>, <<80000, 72500>>,
       <<72500, 65000>>, <<65000, 55000>>, <<55000, 45000>>, <<45000, 35000>> >>

\* create_level_bounds.py lines 55-64
Shipped_plev_bounds ==
    << <<101325, 96250>>, <<96250, 88750>>, <<88750, 72500>>, <<72500, 65000>>,
       <<65000, 55000>>, <<55000, 45000>>, <<45000, 35000>>, <<35000, 25000>> >>

Shipped == [levels |-> Shipped_plev, bounds |-> Shipped_plev_bounds]

\* The source with its constants edited: the first n levels and the first m
\* bounds pairs are kept (n = m = Len(Shipped_plev) is the source as shipped;
\* n = m = 2 is the spec's Scenario A).  At least one level is kept: a
\* dimension of size 0 is netCDF's unlimited dimension, which is not modelled.
Edit(n, m) == [levels |-> SubSeq(Shipped_plev, 1, n),
               bounds |-> SubSeq(Shipped_plev_bounds, 1, m)]

\* An edit whose level is not a float32 number.
FineEdit == [levels |-> <<2^24 + 1>>, bounds |-> << <<2^24 + 3, 2^24 - 1>> >>]

Configs == {Edit(n, m) : n \in 1..Len(Shipped_plev), m \in 0..Len(Shipped_plev_bounds)}
           \cup {FineEdit}

(***************************************************************************)
(* The file: named dimensions, variables (dimensions, data, attributes)    *)
(* and global attributes.  The operators are the netCDF4 calls the scripts *)
(* make.                                                                   *)
(***************************************************************************)
NoAttrs == [a \in {} |-> ""]

\* Dataset(path, 'w'): a new, empty dataset replaces whatever was there.
EmptyDataset == [exists |-> TRUE,
                 dims   |-> [d \in {} |-> 0],
                 vars   |-> [v \in {} |-> 0],
                 attrs  |-> NoAttrs]

\* Opening in append mode keeps the present content.
OpenAppend(f) == IF f = NoFile THEN EmptyDataset ELSE f

\* Dataset('level_bounds.nc', 'w', ...): the file as opened for writing.
OpenWrite(f) == EmptyDataset

\* The open is never refused.
NeverRefused(w) == FALSE

\* Dataset(path, 'w') raises (PermissionError) on a path that is not writable.
WriteRefused(w) == ~w

\* A missing file is tolerated.
NeverMissing(f) == FALSE

\* Dataset(path) raises (FileNotFoundError) when the file is missing.
ReadRefused(f) == f = NoFile

\* nc.createDimension(name, size)
CreateDimension(f, name, size) == [f EXCEPT !.dims = @ @@ (name :> size)]

\* The fill-valued content of a new variable over the dimensions dimnames.
FillData(f, dimnames) ==
    IF Len(dimnames) = 1
    THEN [k \in 1..f.dims[dimnames[1]] |-> NC_FILL]
    ELSE [k \in 1..f.dims[dimnames[1]] |->
              [c \in 1..f.dims[dimnames[2]] |-> NC_FILL]]

\* nc.createVariable(name, 'f8', dimnames)
CreateVariable(f, name, dimnames) ==
    [f EXCEPT !.vars = @ @@ (name :> [dimensions |-> dimnames,
                                      data       |-> FillData(f, dimnames),
                                      attrs      |-> NoAttrs])]

\* The number of rows of the variable.
Rows(f, name) == Len(f.vars[name].data)

\* Any array is taken as it comes.
AlwaysConforms(data, n) == TRUE

\* var[...] = data: the data has the shape of the variable (n rows).
Conforms(data, n) == Len(data) = n

\* var[...] = data: a single row that numpy can broadcast to n rows.
Broadcastable(data, n) == Len(data) = 1 /\ n > 1

\* numpy.broadcast_to(data, (n, ...)) of a single row.
BroadcastTo(data, n) == [k \in 1..n |-> data[1]]

\* The rows are stored in the opposite order.
AssignReversed(f, name, data) ==
    [f EXCEPT !.vars[name].data = [k \in 1..Len(data) |-> data[Len(data) + 1 - k]]]

\* var[...] = data, for conforming data (float32 to f8 is exact).
Assign(f, name, data) == [f EXCEPT !.vars[name].data = data]

\* var.attr = value
SetVarAttr(f, name, attr, value) ==
    [f EXCEPT !.vars[name].attrs = (attr :> value) @@ @]

\* nc.attr = value
SetAttr(f, attr, value) == [f EXCEPT !.attrs = (attr :> value) @@ @]

\* create_level_bounds.py lines 77-83
PlevAttrs(f) ==
    SetVarAttr(SetVarAttr(SetVarAttr(SetVarAttr(SetVarAttr(SetVarAttr(SetVarAttr(f,
        "plev", "standard_name", "air_pressure"),
        "plev", "long_name", "Pressure Level"),
        "plev", "units", "Pa"),
        "plev", "positive", "down"),
        "plev", "axis", "Z"),
        "plev", "_CoordinateAxisType", "Pressure"),
        "plev", "bounds", "plev_bounds")

HasVar(f, name) == f # NoFile /\ name \in DOMAIN f.vars

\* A value of the file as numpy sees it: the fill value reads as masked.
Unfill(x) == IF x = NC_FILL THEN MASKED ELSE x

\* ds.variables[name][:]
ReadVar(f, name) ==
    LET v == f.vars[name]
    IN  IF Len(v.dimensions) = 1
        THEN [k \in 1..Len(v.data) |-> Unfill(v.data[k])]
        ELSE [k \in 1..Len(v.data) |->
                 [c \in 1..Len(v.data[k]) |-> Unfill(v.data[k][c])]]

(***************************************************************************)
(* The Validator's arithmetic and formatting (levels_check.py 11-14)       *)
(***************************************************************************)
RECURSIVE SumSeq(_)
SumSeq(s) == IF s = <<>> THEN 0 ELSE Head(s) + SumSeq(Tail(s))

\* The entries of a row that are not masked.
Unmasked(row) == SelectSeq(row, LAMBDA x : x # MASKED)

\* The mean in whole Pascals (an integer division), in tenths.
MeanTruncated(row) ==
    LET u == Unmasked(row)
    IN  IF u = <<>> THEN MASKED ELSE 10 * (SumSeq(u) \div Len(u))

\* np.mean(row), in tenths: the mean of the unmasked entries, masked when
\* there is none.
Mean(row) ==
    LET u == Unmasked(row)
    IN  IF u = <<>> THEN MASKED
        ELSE SumSeq([k \in 1..Len(u) |-> 10 * u[k]]) \div Len(u)

\* abs(midpoint - level): midpoint in tenths, level in Pascals.
AbsDiff(mid, level) ==
    IF mid = MASKED \/ level = MASKED THEN MASKED
    ELSE IF mid >= 10 * level THEN mid - 10 * level ELSE 10 * level - mid

\* f"{x:.1f}" of a value in tenths: integer part and first decimal.
Format(t) == IF t = MASKED THEN DASHES ELSE <<t \div 10, t % 10>>

\* f"{x:.1f}" of a value in Pascals.
FormatPa(x) == IF x = MASKED THEN DASHES ELSE Format(10 * x)

\* The line printed for a level and its row of bounds (lines 12-14).
Line(level, row) ==
    [plev     |-> FormatPa(level),
     midpoint |-> Format(Mean(row)),
     diff     |-> Format(AbsDiff(Mean(row), level))]

\* The loop stops one level early.
LoopCountShort(p) == IF Len(p) > 0 THEN Len(p) - 1 ELSE 0

\* range(len(plev)): the number of iterations of the loop of line 11.
LoopCount(p) == Len(p)

(***************************************************************************)
(* Files that the Generator did not write                                  *)
(***************************************************************************)
\* Levels and bounds of such files; the first is the spec's Scenario B.
ForeignLevels == <<90000, 100000, 92500, 85000>>
ForeignBounds == << <<95000, 85000>>, <<101325, 96250>>,
                    <<96250, 88750>>, <<88750, 72500>> >>

\* A file with (hasP) a field plev of lp levels and (hasB) a field
\* plev_bounds of lb pairs, and a title.
Foreign(hasP, hasB, lp, lb) ==
    [exists |-> TRUE,
     dims   |-> ("bnds" :> 2) @@ ("plev" :> lp) @@ ("lev" :> lb),
     vars   |-> (IF hasP
                 THEN "plev" :> [dimensions |-> <<"plev">>,
                                 data       |-> SubSeq(ForeignLevels, 1, lp),
                                 attrs      |-> NoAttrs]
                 ELSE [v \in {} |-> 0])
                @@
                (IF hasB
                 THEN "plev_bounds" :> [dimensions |-> <<"lev", "bnds">>,
                                        data       |-> SubSeq(ForeignBounds, 1, lb),
                                        attrs      |-> NoAttrs]
                 ELSE [v \in {} |-> 0]),
     attrs  |-> ("title" :> "foreign")]

ForeignFiles ==
    {Foreign(hasP, hasB, IF hasP THEN lp ELSE 0, IF hasB THEN lb ELSE 0) :
        hasP \in BOOLEAN, hasB \in BOOLEAN,
        lp \in 0..MaxForeignLen, lb \in 0..MaxForeignLen}

(***************************************************************************)
(* Initial state: no script has run yet                                    *)
(***************************************************************************)
Init ==
    /\ cfg \in Configs
    /\ writable \in BOOLEAN
    /\ fs \in {NoFile} \cup ForeignFiles
    /\ run = "none"
    /\ pc = "idle"
    /\ handle = "unopened"
    /\ err = 0
    /\ plev_vals = <<>>
    /\ plev_bounds_vals = <<>>
    /\ plev = <<>>
    /\ plev_bounds = <<>>
    /\ i = 0
    /\ lines = <<>>
    /\ fs_before = fs
    /\ first_result = NoFile
    /\ gen_runs = 0

\* No script is running.
Ended == pc \in {"idle", "done", "failed"}

GenLocals == <<plev_vals, plev_bounds_vals>>
ValLocals == <<plev, plev_bounds, i, lines>>
History == <<first_result, gen_runs>>

\* An uncaught exception raised at source line ln ends the run.
Raise(ln) == pc' = "failed" /\ err' = ln

(***************************************************************************)
(* create_level_bounds.py                                                  *)
(***************************************************************************)
\* Lines 54-64: the script starts and builds its two float32 arrays.
G_Build ==
    /\ Ended
    /\ run' = "generator"
    /\ pc' = "g66"
    /\ handle' = "unopened"
    /\ err' = 0
    /\ plev_vals' = [k \in 1..Len(cfg.levels) |-> F32(cfg.levels[k])]
    /\ plev_bounds_vals' =
           [k \in 1..Len(cfg.bounds) |->
               [c \in 1..Len(cfg.bounds[k]) |-> F32(cfg.bounds[k][c])]]
    /\ plev' = <<>> /\ plev_bounds' = <<>> /\ i' = 0 /\ lines' = <<>>
    /\ fs_before' = fs
    /\ UNCHANGED <<cfg, writable, fs, History>>

\* Line 66: with Dataset('level_bounds.nc', 'w', ...) as nc
G_Open ==
    /\ run = "generator" /\ pc = "g66"
    /\ IF WriteRefused(writable)
       THEN Raise(66) /\ UNCHANGED <<fs, handle>>
       ELSE /\ fs' = OpenWrite(fs)
            /\ handle' = "open"
            /\ pc' = "g67"
            /\ err' = err
    /\ UNCHANGED <<cfg, writable, run, GenLocals, ValLocals, fs_before, History>>

\* A statement of the with block that changes the file and cannot fail.
GStep(at, next, newfs) ==
    /\ run = "generator" /\ pc = at
    /\ fs' = newfs
    /\ pc' = next
    /\ UNCHANGED <<cfg, writable, run, handle, err, GenLocals, ValLocals,
                   fs_before, History>>

\* Line 67: nc.createDimension('plev', len(plev_vals))
G_DimPlev == GStep("g67", "g68", CreateDimension(fs, "plev", Len(plev_vals)))

\* Line 68: nc.createDimension('bnds', 2)
G_DimBnds == GStep("g68", "g70", CreateDimension(fs, "bnds", 2))

\* Line 70: plev = nc.createVariable('plev', 'f8', ('plev',))
G_VarPlev == GStep("g70", "g71", CreateVariable(fs, "plev", <<"plev">>))

\* Line 71: plev_bounds = nc.createVariable('plev_bounds', 'f8', ('plev', 'bnds'))
G_VarBounds ==
    GStep("g71", "g73", CreateVariable(fs, "plev_bounds", <<"plev", "bnds">>))

\* Line 73: plev[:] = plev_vals
G_AssignPlev == GStep("g73", "g74", Assign(fs, "plev", plev_vals))

\* Line 74: plev_bounds[:, :] = plev_bounds_vals.  Data of another shape
\* raises and the with block closes the dataset on the way out; whether a
\* single pair is broadcast to every row instead depends on the netCDF4
\* release, so both outcomes are possible.
G_AssignBounds ==
    /\ run = "generator" /\ pc = "g74"
    /\ LET n == Rows(fs, "plev_bounds")
       IN  \/ /\ Conforms(plev_bounds_vals, n)
              /\ fs' = Assign(fs, "plev_bounds", plev_bounds_vals)
              /\ pc' = "g77"
              /\ UNCHANGED <<handle, err>>
           \/ /\ ~Conforms(plev_bounds_vals, n)
              /\ Broadcastable(plev_bounds_vals, n)
              /\ fs' = Assign(fs, "plev_bounds", BroadcastTo(plev_bounds_vals, n))
              /\ pc' = "g77"
              /\ UNCHANGED <<handle, err>>
           \/ /\ ~Conforms(plev_bounds_vals, n)
              /\ Raise(74)
              /\ handle' = "closed"
              /\ fs' = fs
    /\ UNCHANGED <<cfg, writable, run, GenLocals, ValLocals, fs_before, History>>

\* Lines 77-83: the attributes of plev
G_Attrs == GStep("g77", "g85", PlevAttrs(fs))

\* Line 85: nc.history = '...'
G_History ==
    GStep("g85", "g86",
          SetAttr(fs, "history", "Created with custom python script on YYYY-MM-DD"))

\* End of the with block: the dataset is closed and the script ends.
G_Close ==
    /\ run = "generator" /\ pc = "g86"
    /\ handle' = "closed"
    /\ pc' = "done"
    /\ gen_runs' = IF gen_runs < MaxCounted THEN gen_runs + 1 ELSE gen_runs
    /\ first_result' = IF first_result = NoFile THEN fs ELSE first_result
    /\ UNCHANGED <<cfg, writable, fs, run, err, GenLocals, ValLocals, fs_before>>

(***************************************************************************)
(* levels_check.py                                                         *)
(***************************************************************************)
\* Line 5: the script starts; ds = Dataset('level_bounds.nc')
V_Open ==
    /\ Ended
    /\ run' = "validator"
    /\ plev_vals' = <<>> /\ plev_bounds_vals' = <<>>
    /\ plev' = <<>> /\ plev_bounds' = <<>> /\ i' = 0 /\ lines' = <<>>
    /\ fs_before' = fs
    /\ IF ReadRefused(fs)
       THEN Raise(5) /\ handle' = "unopened"
       ELSE pc' = "v7" /\ err' = 0 /\ handle' = "open"
    /\ UNCHANGED <<cfg, writable, fs, History>>

\* Line 7: plev = ds.variables['plev'][:]
V_ReadPlev ==
    /\ run = "validator" /\ pc = "v7"
    /\ IF HasVar(fs, "plev")
       THEN plev' = ReadVar(fs, "plev") /\ pc' = "v8" /\ err' = err
       ELSE Raise(7) /\ plev' = plev
    /\ UNCHANGED <<cfg, writable, fs, run, handle, GenLocals, plev_bounds, i,
                   lines, fs_before, History>>

\* Line 8: plev_bounds = ds.variables['plev_bounds'][:]
V_ReadBounds ==
    /\ run = "validator" /\ pc = "v8"
    /\ IF HasVar(fs, "plev_bounds")
       THEN plev_bounds' = ReadVar(fs, "plev_bounds") /\ pc' = "v11" /\ err' = err
       ELSE Raise(8) /\ plev_bounds' = plev_bounds
    /\ UNCHANGED <<cfg, writable, fs, run, handle, GenLocals, plev, i, lines,
                   fs_before, History>>

\* Lines 11-14: one iteration of the loop.  plev_bounds[i] raises
\* (IndexError) when plev_bounds has no row i.
V_Iterate ==
    /\ run = "validator" /\ pc = "v11"
    /\ i < LoopCount(plev)
    /\ IF i + 1 \in DOMAIN plev_bounds
       THEN /\ lines' = Append(lines, Line(plev[i + 1], plev_bounds[i + 1]))
            /\ i' = i + 1
            /\ UNCHANGED <<pc, err>>
       ELSE Raise(12) /\ UNCHANGED <<i, lines>>
    /\ UNCHANGED <<cfg, writable, fs, run, handle, GenLocals, plev, plev_bounds,
                   fs_before, History>>

\* Line 11, range exhausted: the script ends; ds is never closed.
V_End ==
    /\ run = "validator" /\ pc = "v11"
    /\ ~(i < LoopCount(plev))
    /\ pc' = "done"
    /\ UNCHANGED <<cfg, writable, fs, run, handle, err, GenLocals, ValLocals,
                   fs_before, History>>

(***************************************************************************)
(* The environment                                                         *)
(***************************************************************************)
\* Between runs the file is removed or replaced by another one.
FileReplaced ==
    /\ Ended
    /\ fs' \in ({NoFile} \cup ForeignFiles) \ {fs}
    /\ fs_before' = fs'
    /\ run' = "none"
    /\ pc' = "idle"
    /\ handle' = "unopened"
    /\ err' = 0
    /\ plev_vals' = <<>> /\ plev_bounds_vals' = <<>>
    /\ plev' = <<>> /\ plev_bounds' = <<>> /\ i' = 0 /\ lines' = <<>>
    /\ UNCHANGED <<cfg, writable, History>>

Next ==
    \/ G_Build
    \/ G_Open
    \/ G_DimPlev
    \/ G_DimBnds
    \/ G_VarPlev
    \/ G_VarBounds
    \/ G_AssignPlev
    \/ G_AssignBounds
    \/ G_Attrs
    \/ G_History
    \/ G_Close
    \/ V_Open
    \/ V_ReadPlev
    \/ V_ReadBounds
    \/ V_Iterate
    \/ V_End
    \/ FileReplaced

Spec == Init /\ [][Next]_vars

(***************************************************************************)
(* Properties                                                              *)
(***************************************************************************)
\* The file read by the Validator has a structural error: a field is absent
\* or the two fields differ in the length of their axis.
StructuralError(f) ==
    /\ f # NoFile
    /\ \/ ~HasVar(f, "plev")
       \/ ~HasVar(f, "plev_bounds")
       \/ Rows(f, "plev") # Rows(f, "plev_bounds")

\* The file has both fields, with as many pairs as levels.
Valid(f) ==
    /\ HasVar(f, "plev")
    /\ HasVar(f, "plev_bounds")
    /\ Rows(f, "plev") = Rows(f, "plev_bounds")

\* The value of a printed field, in tenths.
Printed(field) == 10 * field[1] + field[2]

\* C1 (as claimed): a Validator run on a file with a structural error prints
\* no line at any time, and does not complete.
C1_AbortBeforeOutput ==
    (run = "validator" /\ StructuralError(fs))
        => (lines = <<>> /\ pc # "done")

\* C2: every line the Validator has printed reports, for its index k, the
\* stored level, the midpoint (b0 + b1) / 2 of the stored pair and
\* |midpoint - level|, to one decimal; level 100000 with bounds
\* [101325, 96250] prints 100000.0, 98787.5 and 1212.5, and level 90000
\* with bounds [95000, 85000] prints a difference of 0.0.
C2_PerRowResult ==
    run = "validator" =>
        \A k \in 1..Len(lines) :
            LET level == fs.vars["plev"].data[k]
                b     == fs.vars["plev_bounds"].data[k]
                ln    == lines[k]
            IN  (Len(b) = 2 /\ level # NC_FILL /\ b[1] # NC_FILL /\ b[2] # NC_FILL) =>
                    /\ ln.plev = <<level, 0>>
                    /\ ln.midpoint[2] \in 0..9 /\ ln.diff[2] \in 0..9
                    /\ 2 * Printed(ln.midpoint) = 10 * (b[1] + b[2])
                    /\ Printed(ln.diff) >= 0
                    /\ \/ Printed(ln.diff) = Printed(ln.midpoint) - 10 * level
                       \/ Printed(ln.diff) = 10 * level - Printed(ln.midpoint)
                    /\ (level = 100000 /\ b = <<101325, 96250>>) =>
                           ln = [plev |-> <<100000, 0>>, midpoint |-> <<98787, 5>>,
                                 diff |-> <<1212, 5>>]
                    /\ (level = 90000 /\ b = <<95000, 85000>>) =>
                           ln.diff = <<0, 0>>

\* C2 witness: a run has printed the line of Scenario B and then the line
\* of Scenario A.
C2_Witness ==
    /\ run = "validator"
    /\ Len(lines) = 2
    /\ lines[1] = [plev |-> <<90000, 0>>, midpoint |-> <<90000, 0>>, diff |-> <<0, 0>>]
    /\ lines[2] = [plev |-> <<100000, 0>>, midpoint |-> <<98787, 5>>,
                   diff |-> <<1212, 5>>]

\* C3: on a valid file with N levels the k-th line printed is the line of the
\* k-th stored level and pair, never more than N lines are printed, and a
\* completed run has printed exactly N.
C3_OrderAndCount ==
    (run = "validator" /\ Valid(fs)) =>
        /\ Len(lines) <= Rows(fs, "plev")
        /\ \A k \in 1..Len(lines) :
               lines[k] = Line(ReadVar(fs, "plev")[k], ReadVar(fs, "plev_bounds")[k])
        /\ pc = "done" => Len(lines) = Rows(fs, "plev")

\* C3 witness: a run over the file generated from the shipped constants has
\* completed, with eight lines whose levels are in file order.
C3_Witness ==
    /\ run = "validator" /\ pc = "done" /\ Valid(fs)
    /\ Len(lines) = Len(Shipped_plev)
    /\ lines[1].plev = <<100000, 0>>
    /\ lines[Len(lines)].plev = <<30000, 0>>

\* C4: after a successful Generator run the file has exactly the dimensions
\* plev (the number of configured levels) and bnds (2); plev reads back as
\* the configured levels in their order; plev_bounds has one row per level
\* and every configured pair reads back at its index.
C4_RoundTrip ==
    (run = "generator" /\ pc = "done") =>
        /\ fs.dims = ("plev" :> Len(plev_vals)) @@ ("bnds" :> 2)
        /\ Valid(fs)
        /\ ReadVar(fs, "plev") = plev_vals
        /\ Len(ReadVar(fs, "plev_bounds")) = Len(plev_vals)
        /\ \A k \in 1..Len(plev_bounds_vals) :
               ReadVar(fs, "plev_bounds")[k] = plev_bounds_vals[k]

\* C4 witness: the Generator has completed with the shipped constants.
C4_Witness ==
    /\ run = "generator" /\ pc = "done"
    /\ cfg = Shipped
    /\ ReadVar(fs, "plev") = Shipped_plev
    /\ ReadVar(fs, "plev_bounds") = Shipped_plev_bounds

\* C5: a Validator run has printed lines only if the file holds both fields
\* (written by a Generator run, or otherwise present); a Validator run on a
\* missing file has failed at the open with nothing printed.
C5_GenerateBeforeValidate ==
    /\ (run = "validator" /\ lines # <<>>) =>
           (HasVar(fs, "plev") /\ HasVar(fs, "plev_bounds"))
    /\ (run = "validator" /\ fs = NoFile) =>
           (pc = "failed" /\ err = 5 /\ lines = <<>>)

\* C5 witness: before any Generator run has completed, a Validator run on a
\* missing file has failed.
C5_Witness ==
    run = "validator" /\ fs = NoFile /\ pc = "failed" /\ gen_runs = 0

\* C6: a Generator run on a path that is not writable fails at the open and
\* the file is as it was when the run started.
C6_UnwritableLeavesFile ==
    (run = "generator" /\ ~writable /\ pc # "g66") =>
        /\ pc = "failed" /\ err = 66
        /\ handle = "unopened"
        /\ fs = fs_before

\* C6 witness: such a run has failed with a pre-existing file in place.
C6_Witness ==
    run = "generator" /\ ~writable /\ pc = "failed" /\ fs # NoFile

\* C7: after every successful Generator run the file equals the file after
\* the first successful run, and holds nothing but what a run writes.
C7_Idempotence ==
    (run = "generator" /\ pc = "done") =>
        /\ fs = first_result
        /\ DOMAIN fs.dims = {"plev", "bnds"}
        /\ DOMAIN fs.vars = {"plev", "plev_bounds"}
        /\ DOMAIN fs.attrs = {"history"}

\* C7 witness: a second successful run, started from a file that was not the
\* result of the first.
C7_Witness ==
    /\ run = "generator" /\ pc = "done"
    /\ gen_runs >= 2
    /\ fs_before \in ForeignFiles

\* C8 (as claimed): when a run has ended after opening the file, the handle
\* has been closed by the script.
C8_HandleReleased ==
    (pc \in {"done", "failed"} /\ handle # "unopened") => handle = "closed"

\* The Generator's constants differ in length and the path is writable.
Mismatch ==
    /\ run = "generator"
    /\ writable
    /\ Len(cfg.levels) # Len(cfg.bounds)

\* The Generator has failed at the assignment of the bounds, with the file
\* opened (and closed on the way out), the dimensions and both fields defined.
FailedAtAssignment ==
    /\ err = 74
    /\ handle = "closed"
    /\ fs.dims = ("plev" :> Len(cfg.levels)) @@ ("bnds" :> 2)
    /\ HasVar(fs, "plev") /\ HasVar(fs, "plev_bounds")

\* C9 (as claimed): with constants of different lengths the run never gets
\* past the assignment of the bounds, and fails there.
C9_MismatchFailsAtWrite ==
    Mismatch =>
        /\ pc \notin {"g77", "g85", "g86", "done"}
        /\ pc = "failed" => FailedAtAssignment

\* C9 (amended): with constants of different lengths a failure is at the
\* assignment of the bounds and nowhere earlier; the run never gets past
\* that assignment unless there is exactly one pair, which may be broadcast
\* to every level.
C9_MismatchFailsAtWriteUnlessBroadcast ==
    Mismatch =>
        /\ pc = "failed" => FailedAtAssignment
        /\ Len(cfg.bounds) # 1 => pc \notin {"g77", "g85", "g86", "done"}
        /\ pc \in {"g77", "g85", "g86", "done"} =>
               \A k \in 1..Len(cfg.levels) :
                   ReadVar(fs, "plev_bounds")[k] = plev_bounds_vals[1]

\* C9 witness: a run with more levels than pairs (and more than one pair)
\* has failed at the assignment.
C9_Witness ==
    /\ Mismatch
    /\ Len(cfg.bounds) > 1
    /\ pc = "failed" /\ FailedAtAssignment

\* C10: the arrays built from the shipped constants have eight entries each
\* and every level lies in the closed interval of its pair.
C10_ShippedBracket ==
    (run = "generator" /\ cfg = Shipped) =>
        /\ Len(plev_vals) = 8
        /\ Len(plev_bounds_vals) = 8
        /\ \A k \in 1..Len(plev_vals) :
               /\ plev_bounds_vals[k][2] <= plev_vals[k]
               /\ plev_vals[k] <= plev_bounds_vals[k][1]

\* C10 witness: the Generator has built its arrays from the shipped constants.
C10_Witness ==
    /\ run = "generator" /\ cfg = Shipped
    /\ plev_vals = Shipped_plev
    /\ plev_bounds_vals = Shipped_plev_bounds

====
